---- MODULE Spec2Model ----
(***************************************************************************)
(* Model of the bass line transcriber (BassLineTranscriber, in             *)
(* ablt/bass_line_transcriber/transcriber_class.py) and of the batch       *)
(* extraction loop (bassline_extractor/bassline_extractor.py).             *)
(*                                                                         *)
(* Frequencies are integers in tenths of a Hertz (1100 is 110.0 Hz, A2),   *)
(* 0 is an unvoiced sample.  Python's 0-based index i is index i+1 here.   *)
(* The functions of ablt/bass_line_transcriber/transcription.py (pYIN_F0,  *)
(* the two quantizers, the MIDI sequence builder) are modelled from their  *)
(* contracts in the specification, sections 4.1 to 4.5.                    *)
(***************************************************************************)
EXTENDS Integers, Sequences, FiniteSets, TLC

\* ------------------------------------------------------------- bounds

\* Longest bass line (in F0 samples) the quantizer specifications draw.
MaxLen == 5
\* Longest bass line the MIDI specification draws.
MaxCells == 4
\* Most track titles in a batch.
MaxTitles == 3
\* The tempi (beats per minute) the frame factor is computed for.
MinBPM == 60
MaxBPM == 180

\* -------------------------------------------------- program constants

FS == 44100
\* FRAME_LEN = int(T_MAX*FS) with T_MAX = 1/F_MIN, F_MIN = 32.7:
\* int(44100 / 32.7) = int(1348.62...) = 1348, computed in tenths.
F_MIN_TENTHS == 327
FRAME_LEN == (FS * 10) \div F_MIN_TENTHS
\* extract_pitch_track hands pYIN_F0 a literal hop_factor.
EXTRACT_HOP_FACTOR == 32
\* The frequency the quantizers write for silence (an unvoiced sample).
SILENCE_FREQ == 0
\* Markers of the quantized pitch track's first row.
MARK_SIL == 0
MARK_UNK == 0 - 1
MARK_NONE == 0 - 2

\* ------------------------------------------------------ pure helpers

Abs(x) == IF x < 0 THEN 0 - x ELSE x

\* Python's seq[i:] for an integer i (a negative i counts from the end).
PySliceFrom(s, i) ==
    LET n == Len(s)
        k == IF i < 0 THEN (IF n + i < 0 THEN 0 ELSE n + i)
             ELSE (IF i > n THEN n ELSE i)
    IN  SubSeq(s, k + 1, n)

\* Insertion of x into an ascending sequence.
RECURSIVE InsertSorted(_, _)
InsertSorted(x, s) ==
    IF s = <<>> THEN <<x>>
    ELSE IF x <= Head(s) THEN <<x>> \o s
    ELSE <<Head(s)>> \o InsertSorted(x, Tail(s))

RECURSIVE SortAsc(_)
SortAsc(s) == IF s = <<>> THEN <<>> ELSE InsertSorted(Head(s), SortAsc(Tail(s)))

\* The median of a non-empty sequence: the middle value, or the mean of the
\* two middle values (truncated to a tenth of a Hertz).
Median(s) ==
    LET t == SortAsc(s)
        n == Len(t)
    IN  IF n % 2 = 1 THEN t[(n + 1) \div 2]
        ELSE (t[n \div 2] + t[n \div 2 + 1]) \div 2

\* --------------------------------------------------------- 4.1 scale

\* A1 B1 C2 D2 E2 F2 G2 A2 and A1 B1 C#2 D2 E2 F#2 G#2 A2.
A_MINOR == <<550, 617, 654, 734, 824, 873, 980, 1100>>
A_MAJOR == <<550, 617, 693, 734, 824, 925, 1038, 1100>>

get_track_scale(key, scale_type) ==
    IF key = "A" /\ scale_type = "min" THEN A_MINOR ELSE A_MAJOR

ScaleSet(scale) == {scale[i] : i \in 1..Len(scale)}

\* Index of the scale member nearest to freq, ties to the lower index.
nearest_degree(scale, freq) ==
    CHOOSE i \in 1..Len(scale) :
        \A j \in 1..Len(scale) :
            \/ Abs(scale[i] - freq) < Abs(scale[j] - freq)
            \/ (Abs(scale[i] - freq) = Abs(scale[j] - freq) /\ i <= j)

\* nearest_scale_pitch(freq) -> (scale_freq, degree_index, deviation)
nearest_scale_pitch(scale, freq) ==
    LET d == nearest_degree(scale, freq)
    IN  <<scale[d], d, Abs(scale[d] - freq)>>

\* ----------------------------------------------- 4.2 region segmenter

\* The voiced regions of a track, as pairs <<start, end>> of 0-based
\* indices, end exclusive: start is voiced and follows an unvoiced sample
\* or opens the track; end is the next unvoiced index or the track's length.
IsVoiced(track, i) == track[i + 1] # SILENCE_FREQ

segment(track) ==
    LET n == Len(track)
    IN  { <<s, e>> \in (0..n) \X (0..n) :
            /\ s < e
            /\ \A i \in s..(e - 1) : IsVoiced(track, i)
            /\ (s = 0 \/ ~IsVoiced(track, s - 1))
            /\ (e = n \/ ~IsVoiced(track, e)) }

\* The region among `regions` an index lies in (the index is voiced).
RegionOf(regions, i) == CHOOSE r \in regions : r[1] <= i /\ i < r[2]

\* ------------------------------------------------ 4.3 region quantizer

\* One entry <<marker, frequency>> of the adaptive strategy's output for
\* 0-based index i, given the track's voiced regions.
adaptive_entry(track, regions, scale, filter_unk, length_threshold, epsilon, i) ==
    IF ~IsVoiced(track, i) THEN <<MARK_SIL, SILENCE_FREQ>>
    ELSE LET r == RegionOf(regions, i)
         IN  IF r[2] - r[1] < length_threshold THEN <<MARK_SIL, SILENCE_FREQ>>
             ELSE LET rep == Median(SubSeq(track, r[1] + 1, r[2]))
                      near == nearest_scale_pitch(scale, rep)
                  IN  IF near[3] <= epsilon THEN <<near[2], near[1]>>
                      ELSE IF filter_unk THEN <<MARK_SIL, SILENCE_FREQ>>
                      ELSE <<MARK_UNK, rep>>

\* The quantized pitch track is the pair <<marker row, frequency row>>
\* (Python's pitch_track_quantized[1] is the frequency row, index 2 here).
adaptive_voiced_region_quantization(track, scale, qbp, filter_unk, length_threshold, epsilon) ==
    LET regions == segment(track)
        entries == [i \in 1..Len(track) |->
                      adaptive_entry(track, regions, scale, filter_unk,
                                     length_threshold, epsilon, i - 1)]
    IN  << [i \in 1..Len(track) |-> entries[i][1]],
           [i \in 1..Len(track) |-> entries[i][2]] >>

\* The multiple of epsilon nearest to f (a tie goes to the even multiple).
snap_to_grid(f, epsilon) ==
    LET q == f \div epsilon
        r == f % epsilon
    IN  IF 2 * r < epsilon THEN q * epsilon
        ELSE IF 2 * r > epsilon THEN (q + 1) * epsilon
        ELSE IF q % 2 = 0 THEN q * epsilon
        ELSE (q + 1) * epsilon

uniform_voiced_region_quantization(track, scale, epsilon) ==
    LET f(i) == snap_to_grid(track[i], epsilon)
    IN  << [i \in 1..Len(track) |->
              IF f(i) = SILENCE_FREQ THEN MARK_SIL ELSE MARK_NONE],
           [i \in 1..Len(track) |-> f(i)] >>

\* --------------------------------------------- 4.5 MIDI sequence builder

\* round(69 + 12*log2(f/440)) for f from 53.5 Hz to 113.2 Hz: note n is the
\* band [440 * 2^((n - 0.5 - 69)/12), 440 * 2^((n + 0.5 - 69)/12)); the band
\* edges of notes 33 to 46 in thousandths of a Hertz.
MIDI_LOW == 33
BAND_EDGES == <<53434, 56612, 59978, 63544, 67323, 71326, 75567, 80061,
                84822, 89865, 95209, 100870, 106869, 113223>>

frequency_to_midi_number(f) ==
    MIDI_LOW - 1 + (CHOOSE k \in 1..(Len(BAND_EDGES) - 1) :
                        BAND_EDGES[k] <= 100 * f /\ 100 * f < BAND_EDGES[k + 1])

frequency_to_midi_sequence(freqs, silence_code) ==
    [i \in 1..Len(freqs) |->
        IF freqs[i] = SILENCE_FREQ THEN silence_code
        ELSE frequency_to_midi_number(freqs[i])]

VALID_M == {1, 2, 4, 8}

\* The builder raises a configuration error for any other M.
builder_rejects(m) == m \notin VALID_M

\* Every Mth cell: Python's cells 0, M, 2M, ...
downsample(seq, m) ==
    [k \in 1..((Len(seq) + m - 1) \div m) |-> seq[(k - 1) * m + 1]]

\* Last index (1-based) of the run of equal codes that starts at i.
RECURSIVE RunEnd(_, _)
RunEnd(seq, i) ==
    IF i < Len(seq) /\ seq[i + 1] = seq[i] THEN RunEnd(seq, i + 1) ELSE i

\* Run-length encoding from index i on: one event <<note, start, length>>
\* per run of a non-silence code, in cells, start 0-based.
RECURSIVE encode_runs(_, _, _)
encode_runs(seq, i, silence_code) ==
    IF i > Len(seq) THEN <<>>
    ELSE IF seq[i] = silence_code THEN encode_runs(seq, i + 1, silence_code)
    ELSE LET j == RunEnd(seq, i)
         IN  << <<seq[i], i - 1, j - i + 1>> >>
             \o encode_runs(seq, j + 1, silence_code)

\* Events <<note_number, start_tick, duration_ticks>>; a tick is one cell
\* of the sequence handed in, so a cell kept by the downsampling lasts M
\* ticks.  Defined for m in VALID_M.
midi_sequence_to_midi_array(midi_sequence, m, N_qb, silence_code) ==
    LET runs == encode_runs(downsample(midi_sequence, m), 1, silence_code)
    IN  [k \in 1..Len(runs) |-> <<runs[k][1], runs[k][2] * m, runs[k][3] * m>>]

\* Notes in and out of the scale (extract_notes).
extract_note_dicts(quantized, scale) ==
    LET fs == {quantized[2][i] : i \in 1..Len(quantized[2])} \ {SILENCE_FREQ}
    IN  <<fs \cap ScaleSet(scale), fs \ ScaleSet(scale)>>

\* pYIN_F0: the bass line is its F0 estimate, a sequence of samples
\* <<frequency, confidence>>; the pitch track keeps the samples whose
\* confidence reaches the threshold and makes the others unvoiced.
pYIN_F0(bass_line, threshold) ==
    [i \in 1..Len(bass_line) |->
        IF bass_line[i][2] >= threshold THEN bass_line[i][1] ELSE SILENCE_FREQ]

\* ------------------------------------------------------------- state

VARIABLES
    \* BassLineTranscriber: constructor arguments and fields
    M, BPM, hop_factor, frame_factor, silence_code, track_scale,
    quarter_beat_positions, bass_line,
    \* the attributes set after construction (the names in attrs exist)
    attrs, pitch_track, pitch_track_hop, pitch_track_quantized, notes,
    \* files written: MIDI files by directory, the quantized track's export
    midi_files, quantized_file,
    \* the last call made, and what it did
    last_call, invoked, built, exported,
    \* history: the stages that have completed, what the last successful
    \* quantization returned, a remembered quantization
    done, quantized_last, memo,
    \* the batch loop of bassline_extractor.main
    track_titles, idx, pos, attempts, outcomes, completed, exception_log, pc

config_vars == <<M, BPM, hop_factor, frame_factor, silence_code, track_scale,
                 quarter_beat_positions, bass_line>>
track_vars == <<pitch_track, pitch_track_hop>>
output_vars == <<notes, midi_files, quantized_file>>
call_vars == <<invoked, built, exported>>
batch_vars == <<track_titles, idx, pos, attempts, outcomes, completed,
                exception_log, pc>>
history_vars == <<done, quantized_last>>
vars == <<config_vars, attrs, track_vars, pitch_track_quantized, output_vars,
          last_call, call_vars, history_vars, memo, batch_vars>>

\* ------------------------------------------------------- construction

\* F0_sample_length = int((beat_duration / hop_factor)*FS) with
\* beat_duration = 60/BPM, for an integer BPM.
F0_sample_length(bpm, hop) == (60 * FS) \div (bpm * hop)

\* frame_factor = int(FRAME_LEN / F0_sample_length)
compute_frame_factor(bpm, hop) == FRAME_LEN \div F0_sample_length(bpm, hop)

\* self.M = [M] if isinstance(M, int) else M; the argument is a record
\* [is_int, int, list] holding the integer or the list given.
decimation_rates(m_arg) == IF m_arg.is_int THEN <<m_arg.int>> ELSE m_arg.list

IntArg(m) == [is_int |-> TRUE, int |-> m, list |-> <<>>]
ListArg(l) == [is_int |-> FALSE, int |-> 0, list |-> l]

NoCall == [op |-> "none", outcome |-> "ok", filter_unk |-> FALSE, epsilon |-> 0,
           scheme |-> "", threshold |-> 0]
NoMemo == [set |-> FALSE, filter_unk |-> FALSE, epsilon |-> 0, scheme |-> "",
           track |-> <<>>, result |-> <<>>, other |-> FALSE]

\* The batch loop not running.
BatchIdle ==
    /\ track_titles = <<>> /\ idx = 0 /\ pos = 1
    /\ attempts = <<>> /\ outcomes = <<>> /\ completed = <<>>
    /\ exception_log = <<>> /\ pc = "idle"

\* BassLineTranscriber.__init__(bass_line_path, BPM, key, M, N_bars,
\* hop_factor, silence_code): key is "<key> <scale type>", given as its two
\* words; the bass line and the quarter-beat positions are read from files.
Constructed(line, bpm, key, m_arg, hop, code, qbp) ==
    /\ M = decimation_rates(m_arg)
    /\ BPM = bpm
    /\ hop_factor = hop
    /\ frame_factor = compute_frame_factor(bpm, hop)
    /\ silence_code = code
    /\ track_scale = get_track_scale(key[1], key[2])
    /\ quarter_beat_positions = qbp
    /\ bass_line = line
    /\ attrs = {}
    /\ pitch_track = <<>> /\ pitch_track_hop = 0
    /\ pitch_track_quantized = <<>>
    /\ notes = <<{}, {}>>
    /\ midi_files = {} /\ quantized_file = <<>>
    /\ last_call = NoCall /\ invoked = "none"
    /\ built = <<>> /\ exported = <<>>
    /\ done = {} /\ quantized_last = <<>> /\ memo = NoMemo

Call(op, outcome) == [NoCall EXCEPT !.op = op, !.outcome = outcome]

\* -------------------------------------------------- extract_pitch_track

\* extract_pitch_track(pYIN_threshold): both attributes are assigned from
\* pYIN_F0's result, so a pYIN_F0 that raises leaves the object as it was.
ExtractPitchTrack(pYIN_threshold, raises) ==
    /\ pc = "idle"
    /\ last_call' = [Call("extract", IF raises THEN "error" ELSE "ok")
                        EXCEPT !.threshold = pYIN_threshold]
    /\ IF raises
       THEN UNCHANGED <<attrs, track_vars, done>>
       ELSE /\ pitch_track' = pYIN_F0(bass_line, pYIN_threshold)
            /\ pitch_track_hop' = EXTRACT_HOP_FACTOR
            /\ attrs' = attrs \cup {"pitch_track"}
            /\ done' = done \cup {"extract"}
    /\ invoked' = "none" /\ built' = <<>> /\ exported' = <<>>
    /\ UNCHANGED <<config_vars, pitch_track_quantized, output_vars,
                   quantized_last, memo, batch_vars>>

\* ------------------------------------------------- quantize_pitch_track

\* Variant: the assertion is missing.
scheme_accepted_noassert(scheme) == TRUE

\* assert quantization_scheme in ['adaptive', 'uniform']
scheme_accepted(scheme) == scheme \in {"adaptive", "uniform"}

\* Variant: the branches are swapped.
quantizer_for_swapped(scheme) == IF scheme = "adaptive" THEN "uniform" ELSE "adaptive"

\* if quantization_scheme == 'adaptive': ... else: ...
quantizer_for(scheme) == IF scheme = "adaptive" THEN "adaptive" ELSE "uniform"

\* Variant: length_threshold is not handed over, every region counts as long.
call_adaptive_no_threshold(filter_unk, epsilon) ==
    adaptive_voiced_region_quantization(pitch_track, track_scale,
        quarter_beat_positions, filter_unk, 1, epsilon)

\* The call of the adaptive quantizer, with length_threshold=self.frame_factor.
call_adaptive(filter_unk, epsilon) ==
    adaptive_voiced_region_quantization(pitch_track, track_scale,
        quarter_beat_positions, filter_unk, frame_factor, epsilon)

\* Variant: the uniform quantizer reads the previous quantization when there
\* is one.
call_uniform_on_previous(epsilon) ==
    uniform_voiced_region_quantization(
        IF "pitch_track_quantized" \in attrs THEN pitch_track_quantized[2]
        ELSE pitch_track, track_scale, epsilon)

\* The call of the uniform quantizer.
call_uniform(epsilon) ==
    uniform_voiced_region_quantization(pitch_track, track_scale, epsilon)

QuantizePitchTrack(filter_unk, epsilon, scheme) ==
    /\ pc = "idle"
    /\ LET outcome == IF ~scheme_accepted(scheme) THEN "AssertionError"
                      ELSE IF "pitch_track" \notin attrs THEN "AttributeError"
                      ELSE "ok"
       IN  /\ last_call' = [Call("quantize", outcome)
                               EXCEPT !.filter_unk = filter_unk,
                                      !.epsilon = epsilon, !.scheme = scheme]
           /\ IF outcome = "ok"
              THEN LET returned == IF quantizer_for(scheme) = "adaptive"
                                   THEN call_adaptive(filter_unk, epsilon)
                                   ELSE call_uniform(epsilon)
                   IN  /\ invoked' = quantizer_for(scheme)
                       /\ pitch_track_quantized' = returned
                       /\ quantized_last' = returned
                       /\ attrs' = attrs \cup {"pitch_track_quantized"}
                       /\ done' = done \cup {"quantize"}
              ELSE /\ invoked' = "none"
                   /\ UNCHANGED <<pitch_track_quantized, attrs, history_vars>>
    /\ built' = <<>> /\ exported' = <<>>
    /\ UNCHANGED <<config_vars, track_vars, output_vars, batch_vars>>

\* A quantization kept for comparison: the first one that succeeds, with
\* its arguments and the pitch track it read; `other` tells that the other
\* scheme has run since.
Remember ==
    memo' = IF last_call'.outcome # "ok" THEN memo
            ELSE IF ~memo.set
            THEN [set |-> TRUE, filter_unk |-> last_call'.filter_unk,
                  epsilon |-> last_call'.epsilon, scheme |-> last_call'.scheme,
                  track |-> pitch_track, result |-> pitch_track_quantized',
                  other |-> FALSE]
            ELSE [memo EXCEPT !.other = @ \/ last_call'.scheme # memo.scheme]

\* ------------------------------------------- create_bass_line_MIDI_file

\* Variant: the method reads self.pitch_track.
midi_source_from_pitch_track ==
    [ready |-> "pitch_track" \in attrs,
     freqs |-> IF "pitch_track" \in attrs THEN pitch_track ELSE <<>>]

\* What the method reads: self.pitch_track_quantized[1], an AttributeError
\* when no quantization has set it.
midi_source ==
    [ready |-> "pitch_track_quantized" \in attrs,
     freqs |-> IF "pitch_track_quantized" \in attrs
               THEN pitch_track_quantized[2] ELSE <<>>]

\* Variant: a rejected m is skipped and the loop goes on.
RECURSIVE create_loop_skip_invalid(_, _, _, _, _)
create_loop_skip_invalid(midi_sequence, Ms, N_qb, code, acc) ==
    IF Ms = <<>> THEN [acc EXCEPT !.outcome = "ok"]
    ELSE LET m == Head(Ms)
             arr == IF builder_rejects(m) THEN <<>>
                    ELSE midi_sequence_to_midi_array(midi_sequence, m, N_qb, code)
         IN  create_loop_skip_invalid(midi_sequence, Tail(Ms), N_qb, code,
                 [acc EXCEPT !.built = Append(@, <<m, arr>>),
                             !.exported = Append(@, <<m, arr>>)])

\* Variant: each round hands the next one its downsampled sequence.
RECURSIVE create_loop_carry(_, _, _, _, _)
create_loop_carry(midi_sequence, Ms, N_qb, code, acc) ==
    IF Ms = <<>> THEN [acc EXCEPT !.outcome = "ok"]
    ELSE IF builder_rejects(Head(Ms))
    THEN [acc EXCEPT !.outcome = "ConfigurationError"]
    ELSE LET m == Head(Ms)
             arr == midi_sequence_to_midi_array(midi_sequence, m, N_qb, code)
         IN  create_loop_carry(downsample(midi_sequence, m), Tail(Ms), N_qb, code,
                 [acc EXCEPT !.built = Append(@, <<m, arr>>),
                             !.exported = Append(@, <<m, arr>>)])

\* Variant: silence_code is not handed to the builder, which takes 0.
RECURSIVE create_loop_default_silence(_, _, _, _, _)
create_loop_default_silence(midi_sequence, Ms, N_qb, code, acc) ==
    IF Ms = <<>> THEN [acc EXCEPT !.outcome = "ok"]
    ELSE IF builder_rejects(Head(Ms))
    THEN [acc EXCEPT !.outcome = "ConfigurationError"]
    ELSE LET m == Head(Ms)
             arr == midi_sequence_to_midi_array(midi_sequence, m, N_qb, 0)
         IN  create_loop_default_silence(midi_sequence, Tail(Ms), N_qb, code,
                 [acc EXCEPT !.built = Append(@, <<m, arr>>),
                             !.exported = Append(@, <<m, arr>>)])

\* for m in self.M: build the event array, then export it to midi/<m>.  The
\* loop ends at the first m the builder rejects; acc holds the arrays built
\* and the arrays exported so far, as pairs <<m, array>>.
RECURSIVE create_loop(_, _, _, _, _)
create_loop(midi_sequence, Ms, N_qb, code, acc) ==
    IF Ms = <<>> THEN [acc EXCEPT !.outcome = "ok"]
    ELSE IF builder_rejects(Head(Ms))
    THEN [acc EXCEPT !.outcome = "ConfigurationError"]
    ELSE LET m == Head(Ms)
             bass_line_midi_array ==
                midi_sequence_to_midi_array(midi_sequence, m, N_qb, code)
         IN  create_loop(midi_sequence, Tail(Ms), N_qb, code,
                 [acc EXCEPT !.built = Append(@, <<m, bass_line_midi_array>>),
                             !.exported = Append(@, <<m, bass_line_midi_array>>)])

\* create_MIDI_file writes <title>.mid in the directory midi/<m>, replacing
\* the file a previous call left there.
RECURSIVE write_midi_files(_, _)
write_midi_files(files, exports) ==
    IF exports = <<>> THEN files
    ELSE write_midi_files(
            {f \in files : f[1] # Head(exports)[1]} \cup {Head(exports)},
            Tail(exports))

CreateBassLineMIDIFile ==
    /\ pc = "idle"
    /\ LET src == midi_source
           midi_sequence == frequency_to_midi_sequence(src.freqs, silence_code)
           r == IF src.ready
                THEN create_loop(midi_sequence, M, frame_factor, silence_code,
                         [built |-> <<>>, exported |-> <<>>, outcome |-> "ok"])
                ELSE [built |-> <<>>, exported |-> <<>>,
                      outcome |-> "AttributeError"]
       IN  /\ last_call' = Call("create", r.outcome)
           /\ built' = r.built
           /\ exported' = r.exported
           /\ midi_files' = write_midi_files(midi_files, r.exported)
    /\ invoked' = "none"
    /\ UNCHANGED <<config_vars, attrs, track_vars, pitch_track_quantized,
                   notes, quantized_file, history_vars, memo, batch_vars>>

\* ------------------------- export_quantized_pitch_track, extract_notes

ExportQuantizedPitchTrack ==
    /\ pc = "idle"
    /\ IF "pitch_track_quantized" \in attrs
       THEN /\ quantized_file' = pitch_track_quantized
            /\ last_call' = Call("export_quantized", "ok")
       ELSE /\ last_call' = Call("export_quantized", "AttributeError")
            /\ UNCHANGED quantized_file
    /\ invoked' = "none" /\ built' = <<>> /\ exported' = <<>>
    /\ UNCHANGED <<config_vars, attrs, track_vars, pitch_track_quantized,
                   notes, midi_files, history_vars, memo, batch_vars>>

ExtractNotes ==
    /\ pc = "idle"
    /\ IF "pitch_track_quantized" \in attrs
       THEN /\ notes' = extract_note_dicts(pitch_track_quantized, track_scale)
            /\ attrs' = attrs \cup {"notes"}
            /\ last_call' = Call("extract_notes", "ok")
       ELSE /\ last_call' = Call("extract_notes", "AttributeError")
            /\ UNCHANGED <<notes, attrs>>
    /\ invoked' = "none" /\ built' = <<>> /\ exported' = <<>>
    /\ UNCHANGED <<config_vars, track_vars, pitch_track_quantized,
                   midi_files, quantized_file, history_vars, memo, batch_vars>>

\* ------------------------------------------------------ the batch loop

\* Python's exception classes: each class and its base class.
BASE_CLASS ==
    [c \in {"KeyboardInterrupt", "Exception", "LookupError", "KeyError",
            "IndexError", "OSError", "FileNotFoundError", "RuntimeError",
            "NotImplementedError", "ValueError"} |->
        CASE c \in {"KeyboardInterrupt", "Exception"} -> "BaseException"
          [] c \in {"KeyError", "IndexError"} -> "LookupError"
          [] c = "FileNotFoundError" -> "OSError"
          [] c = "NotImplementedError" -> "RuntimeError"
          [] OTHER -> "Exception"]

RECURSIVE IsInstance(_, _)
IsInstance(kind, class) ==
    \/ kind = class
    \/ (kind \in DOMAIN BASE_CLASS /\ IsInstance(BASE_CLASS[kind], class))

\* Variant: the catch-all clause comes before the specific ones.
EXCEPT_CLAUSES_exception_first ==
    <<"KeyboardInterrupt", "Exception", "KeyError", "FileNotFoundError",
      "RuntimeError">>

\* The except clauses of extract_single_bassline, in order.
EXCEPT_CLAUSES ==
    <<"KeyboardInterrupt", "KeyError", "FileNotFoundError", "RuntimeError",
      "Exception">>

\* The first clause that matches the exception raised, "" when none does.
handler_clause(kind) ==
    LET hits == {i \in 1..Len(EXCEPT_CLAUSES) : IsInstance(kind, EXCEPT_CLAUSES[i])}
    IN  IF hits = {} THEN ""
        ELSE EXCEPT_CLAUSES[CHOOSE i \in hits : \A j \in hits : i <= j]

\* The text_id the clause hands to exception_logger.
text_id(clause) == IF clause = "Exception" THEN "unexpected" ELSE clause

\* for title in track_titles[idx:]
batch_titles == PySliceFrom(track_titles, idx)

\* extract_single_bassline(title, ...): the extraction raises `raised`
\* ("none": it returns).  KeyboardInterrupt leaves by sys.exit(); any other
\* exception caught is written once by exception_logger, and the function
\* returns.
ExtractSingleBassline(raised) ==
    /\ pc = "extract"
    /\ LET title == batch_titles[pos]
           clause == handler_clause(raised)
       IN  /\ attempts' = Append(attempts, title)
           /\ outcomes' = Append(outcomes, raised)
           /\ IF raised = "none"
              THEN pc' = "record" /\ UNCHANGED exception_log
              ELSE IF clause \in {"KeyboardInterrupt", ""}
              THEN pc' = "exit" /\ UNCHANGED exception_log
              ELSE /\ exception_log' =
                        Append(exception_log, <<text_id(clause), title>>)
                   /\ pc' = "record"
    /\ UNCHANGED <<track_titles, idx, pos, completed>>
    /\ UNCHANGED <<config_vars, attrs, track_vars, pitch_track_quantized,
                   output_vars, last_call, call_vars, history_vars, memo>>

\* The rest of the loop body: the title is appended to the Completed file,
\* and the loop goes to the next title or ends.
RecordCompleted ==
    /\ pc = "record"
    /\ completed' = Append(completed, batch_titles[pos])
    /\ pos' = pos + 1
    /\ pc' = IF pos + 1 > Len(batch_titles) THEN "done" ELSE "extract"
    /\ UNCHANGED <<track_titles, idx, attempts, outcomes, exception_log>>
    /\ UNCHANGED <<config_vars, attrs, track_vars, pitch_track_quantized,
                   output_vars, last_call, call_vars, history_vars, memo>>

\* ------------------------------------------------------------ inputs

\* Sequences of exactly n members of S.
SeqsOfLen(S, n) == [1..n -> S]

\* pYIN_threshold in hundredths (the default is 0.05), a sample's
\* confidence likewise.
PYIN_THRESHOLDS == {5, 50}
UNVOICED == <<0, 0>>

\* Quantization arguments: epsilon in tenths of a Hertz.
EPSILONS == {10, 40}
SCHEMES == {"adaptive", "uniform"}
SCHEMES_GIVEN == SCHEMES \cup {"median"}

\* (BPM, hop_factor) pairs: frame_factor is 4, 2 and 3.
TEMPO_DEFAULT == <<125, 64>>
TEMPO_HOP32 == <<125, 32>>
TEMPO_SLOW == <<100, 64>>

GRID == <<0, 8, 16, 24>>

\* Two bass lines for the whole life of a transcriber: a long A2 note, a gap
\* and a short G2 blip; and an out-of-scale note with an unsure sample.
LINE_A == << <<1104, 90>>, <<1110, 90>>, <<1090, 90>>, <<1104, 90>>,
             UNVOICED, <<980, 90>> >>
LINE_B == << <<1040, 90>>, <<1040, 90>>, <<1040, 20>>, <<1040, 90>>,
             <<1040, 90>>, <<1104, 90>> >>

\* ----------------------------------------------------- specifications

\* The life of one transcriber: every method, in any order.
Init ==
    /\ \E line \in {LINE_A, LINE_B} :
            Constructed(line, TEMPO_DEFAULT[1], <<"A", "min">>,
                        ListArg(<<1, 2>>), TEMPO_DEFAULT[2], 0, GRID)
    /\ BatchIdle

Next ==
    \/ \E t \in PYIN_THRESHOLDS, raises \in BOOLEAN : ExtractPitchTrack(t, raises)
    \/ \E f \in BOOLEAN, s \in SCHEMES_GIVEN :
            QuantizePitchTrack(f, 10, s) /\ UNCHANGED memo
    \/ CreateBassLineMIDIFile
    \/ ExportQuantizedPitchTrack
    \/ ExtractNotes

Spec == Init /\ [][Next]_vars

\* The region quantizer on every bass line of MaxLen samples.
InitQuant ==
    /\ \E line \in SeqsOfLen({UNVOICED, <<1104, 90>>, <<1040, 90>>}, MaxLen),
          tempo \in {TEMPO_HOP32, TEMPO_SLOW} :
            Constructed(line, tempo[1], <<"A", "min">>, IntArg(1), tempo[2], 0, GRID)
    /\ BatchIdle

NextQuant ==
    \/ ExtractPitchTrack(5, FALSE)
    \/ \E f \in BOOLEAN, e \in EPSILONS, s \in SCHEMES :
            QuantizePitchTrack(f, e, s) /\ UNCHANGED memo

SpecQuant == InitQuant /\ [][NextQuant]_vars

\* Quantizations repeated and interleaved, the first one remembered.
InitIdem ==
    /\ \E line \in {LINE_A, LINE_B}, tempo \in {TEMPO_DEFAULT, TEMPO_HOP32},
          scale_type \in {"min", "maj"} :
            Constructed(line, tempo[1], <<"A", scale_type>>, IntArg(1), tempo[2],
                        0, GRID)
    /\ BatchIdle

NextIdem ==
    \/ \E t \in PYIN_THRESHOLDS : ExtractPitchTrack(t, FALSE)
    \/ \E f \in BOOLEAN, e \in EPSILONS, s \in SCHEMES :
            QuantizePitchTrack(f, e, s) /\ Remember

SpecIdem == InitIdem /\ [][NextIdem]_vars

\* The MIDI output for every bass line of MaxCells samples.
InitMidi ==
    /\ \E line \in SeqsOfLen({UNVOICED, <<1104, 90>>, <<980, 90>>}, MaxCells),
          m_arg \in {IntArg(1), IntArg(3), ListArg(<<1, 2>>), ListArg(<<2, 1>>),
                     ListArg(<<4, 3, 1>>)},
          code \in {0, 1} :
            Constructed(line, 125, <<"A", "min">>, m_arg, 32, code, GRID)
    /\ BatchIdle

NextMidi ==
    \/ ExtractPitchTrack(5, FALSE)
    \/ \E s \in SCHEMES : QuantizePitchTrack(FALSE, 10, s) /\ UNCHANGED memo
    \/ CreateBassLineMIDIFile

SpecMidi == InitMidi /\ [][NextMidi]_vars

\* Construction and extraction over a range of tempi and hop factors.
InitFrame ==
    /\ \E bpm \in MinBPM..MaxBPM, hop \in {16, 32, 64, 128} :
            Constructed(LINE_A, bpm, <<"A", "min">>, IntArg(1), hop, 0, GRID)
    /\ BatchIdle

NextFrame == \E t \in PYIN_THRESHOLDS : ExtractPitchTrack(t, FALSE)

SpecFrame == InitFrame /\ [][NextFrame]_vars

\* The batch loop: what each extraction raises is drawn as it runs.
RAISED == {"none", "KeyboardInterrupt", "KeyError", "IndexError", "OSError",
           "FileNotFoundError", "RuntimeError", "NotImplementedError",
           "ValueError"}

InitBatch ==
    /\ Constructed(LINE_A, 125, <<"A", "min">>, IntArg(1), 64, 0, GRID)
    /\ \E n \in 0..MaxTitles, i \in (0 - 1)..MaxTitles :
            /\ track_titles = [k \in 1..n |-> k]
            /\ idx = i
            /\ pc = IF PySliceFrom([k \in 1..n |-> k], i) = <<>>
                    THEN "done" ELSE "extract"
    /\ pos = 1
    /\ attempts = <<>> /\ outcomes = <<>> /\ completed = <<>>
    /\ exception_log = <<>>

NextBatch ==
    \/ \E raised \in RAISED : ExtractSingleBassline(raised)
    \/ RecordCompleted

SpecBatch == InitBatch /\ [][NextBatch]_vars

\* ------------------------------------------------------------- claims

IsCall(op) == last_call.op = op
Succeeded(op) == last_call.op = op /\ last_call.outcome = "ok"

\* C1: quantize_pitch_track called with a quantization_scheme other than
\* 'adaptive' or 'uniform' fails at once (the assertion): no quantizer is
\* invoked, and pitch_track_quantized, pitch_track and the attributes that
\* exist are as before the call.
C1_InvalidSchemeFails ==
    [][ (last_call'.op = "quantize" /\ last_call'.scheme \notin {"adaptive", "uniform"})
          => /\ last_call'.outcome = "AssertionError"
             /\ invoked' = "none"
             /\ pitch_track_quantized' = pitch_track_quantized
             /\ pitch_track' = pitch_track
             /\ attrs' = attrs ]_vars

\* A rejected call made when a quantized pitch track exists.
C1_Witness ==
    /\ IsCall("quantize") /\ last_call.scheme = "median"
    /\ last_call.outcome = "AssertionError"
    /\ "pitch_track_quantized" \in attrs

\* The first position of M that holds a factor outside {1, 2, 4, 8}, 0 when
\* none does.
FirstInvalid ==
    LET bad == {i \in 1..Len(M) : M[i] \notin {1, 2, 4, 8}}
    IN  IF bad = {} THEN 0 ELSE CHOOSE i \in bad : \A j \in bad : i <= j

\* C2: a factor outside {1, 2, 4, 8}, given alone or in a list, is rejected
\* with a configuration error as soon as create_bass_line_MIDI_file comes
\* to it: the call ends there, and no event array is ever built and no MIDI
\* file ever written for such a factor.
C2_InvalidFactorRejected ==
    /\ \A f \in midi_files : f[1] \in {1, 2, 4, 8}
    /\ \A k \in 1..Len(built) : built[k][1] \in {1, 2, 4, 8}
    /\ \A k \in 1..Len(exported) : exported[k][1] \in {1, 2, 4, 8}
    /\ (IsCall("create") /\ "pitch_track_quantized" \in attrs /\ FirstInvalid > 0)
          => /\ last_call.outcome = "ConfigurationError"
             /\ Len(built) = FirstInvalid - 1
             /\ Len(exported) = FirstInvalid - 1

\* A list whose second factor is rejected after the first was exported.
C2_Witness ==
    /\ IsCall("create") /\ last_call.outcome = "ConfigurationError"
    /\ Len(M) = 3 /\ Len(exported) = 1

\* The event array of factor m for the quantized pitch track as it is.
EventsFor(m) ==
    midi_sequence_to_midi_array(
        frequency_to_midi_sequence(pitch_track_quantized[2], silence_code),
        m, frame_factor, silence_code)

\* C3: a successful create_bass_line_MIDI_file builds one event array and
\* makes one export per requested factor, in the order requested, each the
\* array of that factor alone for the one MIDI sequence of the quantized
\* pitch track; the file of each factor holds that array, and the call
\* leaves the quantized pitch track as it was.
C3_OneArrayPerFactor ==
    /\ [](Succeeded("create")
            => /\ Len(built) = Len(M) /\ Len(exported) = Len(M)
               /\ \A k \in 1..Len(M) :
                    /\ built[k] = <<M[k], EventsFor(M[k])>>
                    /\ exported[k] = built[k]
                    /\ <<M[k], EventsFor(M[k])>> \in midi_files)
    /\ [][ last_call'.op = "create"
             => pitch_track_quantized' = pitch_track_quantized ]_vars

\* Two factors requested with the coarser one first, their arrays different.
C3_Witness ==
    /\ Succeeded("create") /\ M = <<2, 1>>
    /\ built[1][2] # <<>> /\ Len(built[2][2]) > Len(built[1][2])

\* C4: after an adaptive quantization, every voiced region [s, e) of the
\* pitch track shorter than frame_factor (the length_threshold handed
\* over) that is bordered by unvoiced samples or the track's ends is
\* silence at every index of the output, and so is every unvoiced sample;
\* the MIDI sequence holds silence_code there.
C4_ShortRegionsSilenced ==
    (Succeeded("quantize") /\ last_call.scheme = "adaptive")
      => LET n == Len(pitch_track)
             voiced(i) == pitch_track[i + 1] # 0
             silent(i) ==
                /\ pitch_track_quantized[2][i + 1] = SILENCE_FREQ
                /\ pitch_track_quantized[1][i + 1] = MARK_SIL
                /\ frequency_to_midi_sequence(pitch_track_quantized[2],
                                              silence_code)[i + 1] = silence_code
         IN  /\ Len(pitch_track_quantized[2]) = n
             /\ \A i \in 0..(n - 1) : ~voiced(i) => silent(i)
             /\ \A s \in 0..(n - 1), e \in 1..n :
                  ( /\ s < e /\ e - s < frame_factor
                    /\ \A i \in s..(e - 1) : voiced(i)
                    /\ (s = 0 \/ ~voiced(s - 1))
                    /\ (e = n \/ ~voiced(e)) )
                  => \A i \in s..(e - 1) : silent(i)

\* A track with a short region, silenced, beside a long one that is a note.
C4_Witness ==
    /\ Succeeded("quantize") /\ last_call.scheme = "adaptive"
    /\ frame_factor = 3
    /\ pitch_track[1] # 0 /\ pitch_track[2] = 0 /\ pitch_track[3] # 0
    /\ pitch_track_quantized[2][1] = SILENCE_FREQ
    /\ pitch_track_quantized[2][3] # SILENCE_FREQ

\* C5: after an adaptive quantization, every entry that is neither silence
\* nor marked unknown holds a frequency of the scale, and its marker is
\* that frequency's index in the scale.
C5_ScaleMembership ==
    (Succeeded("quantize") /\ last_call.scheme = "adaptive")
      => \A i \in 1..Len(pitch_track_quantized[2]) :
            ( /\ pitch_track_quantized[2][i] # SILENCE_FREQ
              /\ pitch_track_quantized[1][i] # MARK_UNK )
            => /\ pitch_track_quantized[2][i] \in ScaleSet(track_scale)
               /\ pitch_track_quantized[1][i] \in 1..Len(track_scale)
               /\ track_scale[pitch_track_quantized[1][i]]
                    = pitch_track_quantized[2][i]

\* An output with a note of the scale and an entry marked unknown.
C5_Witness ==
    /\ Succeeded("quantize") /\ last_call.scheme = "adaptive"
    /\ ~last_call.filter_unk
    /\ \E i, j \in 1..Len(pitch_track_quantized[2]) :
          /\ pitch_track_quantized[1][i] = MARK_UNK
          /\ pitch_track_quantized[2][i] \notin ScaleSet(track_scale)
          /\ pitch_track_quantized[1][j] > 0

\* The last call repeated the remembered quantization on the same track.
Repeated ==
    /\ memo.set /\ Succeeded("quantize")
    /\ last_call.scheme = memo.scheme
    /\ last_call.filter_unk = memo.filter_unk
    /\ last_call.epsilon = memo.epsilon
    /\ pitch_track = memo.track

\* C6: a quantization repeated with the same pitch track, scale,
\* filter_unk, epsilon and scheme gives the result of the first run,
\* whatever was quantized in between; and no call of quantize_pitch_track
\* changes pitch_track, track_scale, quarter_beat_positions or
\* frame_factor.
C6_Idempotent ==
    /\ [](Repeated => pitch_track_quantized = memo.result)
    /\ [][ last_call'.op = "quantize"
             => UNCHANGED <<pitch_track, track_scale, quarter_beat_positions,
                            frame_factor>> ]_vars

\* The remembered uniform quantization, which moved a sample, repeated after
\* an adaptive one had run.
C6_Witness ==
    /\ Repeated /\ memo.other
    /\ memo.scheme = "uniform"
    /\ \E i \in 1..Len(memo.result[2]) : memo.result[2][i] # pitch_track[i]

\* The MIDI sequence of the quantized pitch track as it is.
MidiSequence == frequency_to_midi_sequence(pitch_track_quantized[2], silence_code)

\* Event e is one maximal run of a non-silence code of seq.
IsMaximalRun(seq, e) ==
    /\ e[1] # silence_code
    /\ e[3] >= 1 /\ e[2] >= 0 /\ e[2] + e[3] <= Len(seq)
    /\ \A i \in (e[2] + 1)..(e[2] + e[3]) : seq[i] = e[1]
    /\ (e[2] = 0 \/ seq[e[2]] # e[1])
    /\ (e[2] + e[3] = Len(seq) \/ seq[e[2] + e[3] + 1] # e[1])

\* C7: with M = 1 the event array holds exactly one event per maximal run
\* of a non-silence code of the MIDI sequence and none for silence: every
\* event is such a run, with start_tick the run's first cell and duration
\* the run's length, the events are in order, and every non-silence cell
\* lies in exactly one event.
C7_RunLengthRoundTrip ==
    \A k \in 1..Len(built) :
        (Succeeded("create") /\ built[k][1] = 1)
          => LET ev == built[k][2]
                 seq == MidiSequence
                 covers(j, i) == ev[j][2] < i /\ i <= ev[j][2] + ev[j][3]
             IN  /\ \A j \in 1..Len(ev) : IsMaximalRun(seq, ev[j])
                 /\ \A j \in 1..(Len(ev) - 1) :
                        ev[j][2] + ev[j][3] <= ev[j + 1][2]
                 /\ \A i \in 1..Len(seq) :
                        Cardinality({j \in 1..Len(ev) : covers(j, i)})
                          = IF seq[i] = silence_code THEN 0 ELSE 1

\* Note, silence, note: two events around a silent cell, with a silence
\* code other than 0.
C7_Witness ==
    /\ Succeeded("create") /\ M = <<1>> /\ silence_code = 1
    /\ Len(built[1][2]) = 2
    /\ built[1][2][1][3] = 2
    /\ MidiSequence[3] = silence_code

\* C8: the length threshold handed to the adaptive quantizer, frame_factor,
\* is the number of F0 samples in a quarter-beat of the pitch track that
\* extract_pitch_track produced (a quarter of its samples per beat).
C8_FrameFactorIsQuarterBeat ==
    "pitch_track" \in attrs => 4 * frame_factor = pitch_track_hop

\* C9: the stages are ordered.  quantize_pitch_track succeeds only after a
\* successful extract_pitch_track; create_bass_line_MIDI_file,
\* export_quantized_pitch_track and extract_notes succeed only after a
\* successful quantize_pitch_track; a call out of order fails and writes
\* nothing; and what a call of create_bass_line_MIDI_file exports is built
\* from what the last successful quantization returned.
C9_StagesOrdered ==
    /\ [](Succeeded("quantize") => "extract" \in done)
    /\ [](\A op \in {"create", "export_quantized", "extract_notes"} :
            Succeeded(op) => "quantize" \in done)
    /\ [](IsCall("create")
            => \A k \in 1..Len(exported) :
                  /\ exported[k][2] = midi_sequence_to_midi_array(
                        frequency_to_midi_sequence(quantized_last[2], silence_code),
                        exported[k][1], frame_factor, silence_code)
                  /\ exported[k] \in midi_files)
    /\ [][ /\ (last_call'.op = "quantize" /\ "extract" \notin done)
              => /\ last_call'.outcome # "ok"
                 /\ UNCHANGED <<pitch_track_quantized, attrs>>
           /\ (last_call'.op \in {"create", "export_quantized", "extract_notes"}
                 /\ "quantize" \notin done)
              => /\ last_call'.outcome # "ok"
                 /\ exported' = <<>>
                 /\ UNCHANGED <<midi_files, quantized_file, notes, attrs>> ]_vars

\* MIDI files written after the track was quantized again, the export of
\* the earlier quantization still on disk.
C9_Witness ==
    /\ Succeeded("create") /\ Len(exported) = 2
    /\ exported[1][2] # <<>>
    /\ quantized_file # <<>> /\ quantized_file # pitch_track_quantized

\* The log an exception is written to.
LogOf(kind) ==
    IF IsInstance(kind, "KeyError") THEN "KeyError"
    ELSE IF IsInstance(kind, "FileNotFoundError") THEN "FileNotFoundError"
    ELSE IF IsInstance(kind, "RuntimeError") THEN "RuntimeError"
    ELSE "unexpected"

\* The log entries for the first n attempts, in order: one per failure.
RECURSIVE LogFor(_)
LogFor(n) ==
    IF n = 0 THEN <<>>
    ELSE IF outcomes[n] \in {"none", "KeyboardInterrupt"} THEN LogFor(n - 1)
    ELSE Append(LogFor(n - 1), <<LogOf(outcomes[n]), attempts[n]>>)

====
